---- MODULE Spec2Model ----
(***************************************************************************)
(* rclone-sync: scripts/rclone-sync.py.                                    *)
(*                                                                         *)
(* main() reads ~/.rclone-sync.json, builds a SyncEventHandler, validates  *)
(* the remote root with `rclone lsd`, and starts a watchdog Observer.  The *)
(* observer thread calls on_created / on_deleted / on_modified / on_moved, *)
(* each of which runs rclone through RClone.run_cmd -> RClone._execute, a  *)
(* blocking subprocess call.                                               *)
(*                                                                         *)
(* A Python str is a sequence of symbols: the path symbols of Chars, and   *)
(* one symbol for each literal word of the program ("rclone", "--dry-run", *)
(* ...).  bytes are sequences of byte symbols.  A handler is cut at its    *)
(* blocking points: one action up to each Popen, one for each return.      *)
(***************************************************************************)
EXTENDS Integers, Sequences, FiniteSets, TLC

VARIABLES
    conf,         \* the environment main() reads: ~/.rclone-sync.json and the local directory
    mainPc,       \* position of the main thread in main()
    local_dir,    \* SyncEventHandler.local_dir
    remote_dir,   \* SyncEventHandler.remote_dir
    rclone_args,  \* SyncEventHandler.rclone_args, the stored flag list
    observer,     \* the watchdog Observer: "none", "alive", "stopping", "dead", "joined"
    hpc,          \* position of the observer thread inside a handler
    events,       \* the events delivered to the handler so far, in order
    calls,        \* every invocation passed to _execute so far, in order, each with
                  \* its thread and the number of the event being handled (0: none)
    inflight,     \* the invocations whose child process has not yet ended
    last,         \* the latest child outcome and what _execute returned for it
    local_path,   \* argument of the latest _remote_path call
    mapped,       \* result of the latest _remote_path call
    released,     \* the calls main() has made on the observer to release it, in order
    lsd_flags,    \* the list object that is the default of `flags` in RClone.lsd
    stopped_in_first  \* stop() was called while the first invocation of on_moved ran

vars == <<conf, mainPc, local_dir, remote_dir, rclone_args, observer, hpc,
          events, calls, inflight, last, local_path, mapped, released,
          lsd_flags, stopped_in_first>>

---------------------------------------------------------------------------
(* Bounds *)

MaxEvents == 2      \* events delivered in one run
MaxRootLen == 2     \* SpecMap: length of the local and remote roots
MaxPathLen == 4     \* SpecMap: length of a local path

(* Program constants *)

NotFoundCode == -20
FaultCode == -30
LsdMissingCode == 1

---------------------------------------------------------------------------
(* Values *)

None == <<"None">>
Chars == {"/", "d"}
Strs(n) == UNION {[1..k -> Chars] : k \in 0..n}

\* str.startswith
StartsWith(s, prefix) ==
    /\ Len(prefix) <= Len(s)
    /\ SubSeq(s, 1, Len(prefix)) = prefix

\* positions at which old occurs in s
Occurrences(s, old) ==
    {i \in 1..(Len(s) - Len(old) + 1) : SubSeq(s, i, i + Len(old) - 1) = old}

Min(S) == CHOOSE x \in S : \A y \in S : x <= y

\* str.replace(old, new, 1): the leftmost occurrence of old is replaced
ReplaceFirst(s, old, new) ==
    IF Occurrences(s, old) = {} THEN s
    ELSE LET i == Min(Occurrences(s, old)) IN
         SubSeq(s, 1, i - 1) \o new \o SubSeq(s, i + Len(old), Len(s))

\* str.replace(old, new) without a count: every occurrence, left to right
RECURSIVE ReplaceAll(_, _, _)
ReplaceAll(s, old, new) ==
    IF old = <<>> \/ Occurrences(s, old) = {} THEN s
    ELSE LET i == Min(Occurrences(s, old)) IN
         SubSeq(s, 1, i - 1) \o new
            \o ReplaceAll(SubSeq(s, i + Len(old), Len(s)), old, new)

---------------------------------------------------------------------------
(* The child process, as _execute sees it *)

Absent == <<"Absent">>
ExitCodes == {0, 1, 3}
Stdouts == {<<"o">>}
Stderrs == {<<>>, <<"e">>, <<"xFF">>}

\* What launching the child can do: the executable is not found (Popen
\* raises FileNotFoundError), Popen or communicate raises another OSError,
\* or the child runs to completion with an exit code and two byte strings.
Outcomes ==
    {[kind |-> k, rc |-> 0, stdout |-> <<>>, stderr |-> <<>>] :
        k \in {"notfound", "oserror"}}
    \cup [kind : {"ran"}, rc : ExitCodes, stdout : Stdouts, stderr : Stderrs]

\* bytes.decode("utf-8") succeeds
Decodable(b) == \A i \in 1..Len(b) : b[i] # "xFF"

\* RClone._execute: the dict it returns (a key it leaves out is Absent),
\* `raised` when an exception leaves it instead, and `logged`, the level of
\* the log call that reports the child's stderr or the fault.
ExecuteUncaught(command_with_args, warning_in_debug, o) ==
    IF o.kind = "notfound"
    THEN [raised |-> FALSE, code |-> NotFoundCode, out |-> Absent,
          error |-> <<"FileNotFoundError">>, logged |-> "error"]
    ELSE IF o.kind = "oserror" \/ (o.stderr # <<>> /\ ~Decodable(o.stderr))
    THEN [raised |-> TRUE, code |-> 0, out |-> Absent,
          error |-> <<"Exception">>, logged |-> "none"]
    ELSE [raised |-> FALSE, code |-> o.rc, out |-> o.stdout, error |-> o.stderr,
          logged |-> IF o.stderr = <<>> THEN "none"
                     ELSE IF warning_in_debug THEN "debug" ELSE "warning"]

ExecuteDecodeUncaught(command_with_args, warning_in_debug, o) ==
    IF o.kind = "notfound"
    THEN [raised |-> FALSE, code |-> NotFoundCode, out |-> Absent,
          error |-> <<"FileNotFoundError">>, logged |-> "error"]
    ELSE IF o.kind = "oserror"
    THEN [raised |-> FALSE, code |-> FaultCode, out |-> Absent,
          error |-> <<"OSError">>, logged |-> "exception"]
    ELSE IF o.stderr # <<>> /\ ~Decodable(o.stderr)
    THEN [raised |-> TRUE, code |-> 0, out |-> Absent,
          error |-> <<"UnicodeDecodeError">>, logged |-> "none"]
    ELSE [raised |-> FALSE, code |-> o.rc, out |-> o.stdout, error |-> o.stderr,
          logged |-> IF o.stderr = <<>> THEN "none"
                     ELSE IF warning_in_debug THEN "debug" ELSE "warning"]

ExecuteNotFoundUncaught(command_with_args, warning_in_debug, o) ==
    IF o.kind = "notfound"
    THEN [raised |-> TRUE, code |-> 0, out |-> Absent,
          error |-> <<"FileNotFoundError">>, logged |-> "none"]
    ELSE IF o.kind = "oserror" \/ (o.stderr # <<>> /\ ~Decodable(o.stderr))
    THEN [raised |-> FALSE, code |-> FaultCode, out |-> Absent,
          error |-> <<"Exception">>, logged |-> "exception"]
    ELSE [raised |-> FALSE, code |-> o.rc, out |-> o.stdout, error |-> o.stderr,
          logged |-> IF o.stderr = <<>> THEN "none"
                     ELSE IF warning_in_debug THEN "debug" ELSE "warning"]

_execute(command_with_args, warning_in_debug, o) ==
    IF o.kind = "notfound"
    THEN \* line 55: except FileNotFoundError
         [raised |-> FALSE, code |-> NotFoundCode, out |-> Absent,
          error |-> <<"FileNotFoundError">>, logged |-> "error"]
    ELSE IF o.kind = "oserror"
    THEN \* line 61: except Exception
         [raised |-> FALSE, code |-> FaultCode, out |-> Absent,
          error |-> <<"OSError">>, logged |-> "exception"]
    ELSE IF o.stderr # <<>> /\ ~Decodable(o.stderr)
    THEN \* lines 44, 47: err.decode raises inside the try; line 61 catches it
         [raised |-> FALSE, code |-> FaultCode, out |-> Absent,
          error |-> <<"UnicodeDecodeError">>, logged |-> "exception"]
    ELSE \* line 50
         [raised |-> FALSE, code |-> o.rc, out |-> o.stdout, error |-> o.stderr,
          logged |-> IF o.stderr = <<>> THEN "none"
                     ELSE IF warning_in_debug THEN "debug" ELSE "warning"]

\* RClone.run_cmd: the argument vector and the flag it hands to _execute
run_cmd(command, extra_args, warning_in_debug) ==
    [argv |-> <<<<"rclone">>, <<command>>>> \o extra_args,
     warning_in_debug |-> warning_in_debug]

copyto(source, dest, flags, warning_in_debug) ==
    run_cmd("copyto", <<source>> \o <<dest>> \o flags, warning_in_debug)
mkdir(dest, flags, warning_in_debug) ==
    run_cmd("mkdir", <<dest>> \o flags, warning_in_debug)
lsd(dest, flags, warning_in_debug) ==
    run_cmd("lsd", <<dest>> \o flags, warning_in_debug)
deletefile(dest, flags, warning_in_debug) ==
    run_cmd("deletefile", <<dest>> \o flags, warning_in_debug)
purge(dest, flags, warning_in_debug) ==
    run_cmd("purge", <<dest>> \o flags, warning_in_debug)

\* The wrappers' `flags` argument after the call: `[dest] + flags` (lines 90,
\* 99, 152, 176, 184) and `command_with_args += extra_args` (line 77) extend
\* new lists, so the list object passed as flags is as it was
FlagsInserted(positional, flags) == positional \o flags
flags_after(positional, flags) == flags

---------------------------------------------------------------------------
(* SyncEventHandler *)

DryRunFlag == <<"--dry-run">>
RetryFlags == << <<"--retries">>, <<"1">> >>

\* SyncEventHandler.__init__: the flag list it stores
InitArgsNever(dry_run) == <<>>
InitArgs(dry_run) == IF dry_run THEN <<DryRunFlag>> ELSE <<>>

\* SyncEventHandler._remote_path
RemotePathAll(p) == ReplaceAll(p, local_dir, remote_dir)
RemotePathIdentity(p) == p
_remote_path(p) == ReplaceFirst(p, local_dir, remote_dir)

\* on_moved, lines 211 and 222: `self.rclone_args + ["--retries", "1"]` builds
\* a new list for the call (passed) and leaves the stored list alone (stored)
RetryArgsInPlace(args) ==
    [passed |-> args \o RetryFlags, stored |-> args \o RetryFlags]
RetryArgs(args) ==
    [passed |-> args \o RetryFlags, stored |-> args]

\* The events the observer can deliver: paths under the watched root. A
\* created, deleted or modified event carries one path (SrcSuffixes), a
\* moved event two different ones (Suffixes)
Suffixes == {<<"/", "d">>, <<"/", "d", "d">>}
SrcSuffixes == {<<"/", "d", "d">>}
EventKinds == {"created", "deleted", "modified", "moved"}
Events ==
    {[kind |-> k, is_directory |-> d, src_path |-> local_dir \o s, dest_path |-> None] :
        k \in EventKinds \ {"moved"}, d \in BOOLEAN, s \in SrcSuffixes}
    \cup
    {[kind |-> "moved", is_directory |-> d,
      src_path |-> local_dir \o x[1], dest_path |-> local_dir \o x[2]] :
        d \in BOOLEAN, x \in {y \in Suffixes \X Suffixes : y[1] # y[2]}}

\* on_created, lines 230-240: the one invocation it makes
on_created_call(e) ==
    IF e.is_directory
    THEN mkdir(_remote_path(e.src_path), rclone_args, FALSE)
    ELSE copyto(e.src_path, _remote_path(e.src_path), rclone_args, FALSE)

\* on_deleted, lines 246-256
on_deleted_call(e) ==
    IF e.is_directory
    THEN purge(_remote_path(e.src_path), rclone_args, FALSE)
    ELSE deletefile(_remote_path(e.src_path), rclone_args, FALSE)

\* on_modified, lines 263-268 (a file; a directory returns at line 261)
on_modified_call(e) ==
    copyto(e.src_path, _remote_path(e.src_path), rclone_args, FALSE)

on_moved_first_swapped(e) ==
    IF e.is_directory
    THEN mkdir(_remote_path(e.dest_path), rclone_args, FALSE)
    ELSE copyto(e.dest_path, _remote_path(e.dest_path), rclone_args, FALSE)

\* on_moved, lines 210-211 and 221-222: the first invocation
on_moved_first(e) ==
    IF e.is_directory
    THEN purge(_remote_path(e.src_path), RetryArgs(rclone_args).passed, TRUE)
    ELSE deletefile(_remote_path(e.src_path), RetryArgs(rclone_args).passed, TRUE)

on_moved_second_src(e) ==
    IF e.is_directory
    THEN mkdir(_remote_path(e.dest_path), rclone_args, FALSE)
    ELSE copyto(e.src_path, _remote_path(e.dest_path), rclone_args, FALSE)

\* on_moved, lines 213-214 and 223-224: the second invocation
on_moved_second(e) ==
    IF e.is_directory
    THEN mkdir(_remote_path(e.dest_path), rclone_args, FALSE)
    ELSE copyto(e.dest_path, _remote_path(e.dest_path), rclone_args, FALSE)

---------------------------------------------------------------------------
(* main(): configuration *)

LocalDirs == {<<"/", "d">>}
RemoteDirs == {<<"r:", "d">>}

\* ~/.rclone-sync.json as main() finds it: whether the file exists, whether
\* json.load and the .get calls succeed, the values of its keys (None for a
\* missing key), and whether local_dir is a directory.
Configs ==
    [exists : BOOLEAN, parsed : BOOLEAN,
     local_dir : LocalDirs \cup {None, <<>>},
     remote_dir : RemoteDirs \cup {None, <<>>},
     dry_run : BOOLEAN, isdir : BOOLEAN]

\* Python truth value of a str or None
Falsy(x) == x = None \/ x = <<>>

\* main, lines 283-302: the locals after the configuration file is read
ReadConf(c) ==
    IF c.parsed
    THEN [local_dir |-> c.local_dir, remote_dir |-> c.remote_dir, dry_run |-> c.dry_run]
    ELSE [local_dir |-> None, remote_dir |-> None, dry_run |-> FALSE]

ConfOkNoIsdir(c) ==
    /\ c.exists
    /\ ~Falsy(ReadConf(c).local_dir)
    /\ ~Falsy(ReadConf(c).remote_dir)

\* main, lines 291-316: no configuration error is raised
ConfOk(c) ==
    /\ c.exists
    /\ ~Falsy(ReadConf(c).local_dir)
    /\ ~Falsy(ReadConf(c).remote_dir)
    /\ c.isdir

\* main, line 319: the lsd result that makes startup fail
RemoteMissing(r) == r.code = LsdMissingCode

---------------------------------------------------------------------------
(* State *)

NoOutcome == [kind |-> "none", rc |-> 0, stdout |-> <<>>, stderr |-> <<>>]
NoLast ==
    [index |-> 0, outcome |-> NoOutcome,
     ret |-> [raised |-> FALSE, code |-> 0, out |-> Absent, error |-> Absent,
              logged |-> "none"]]

Init ==
    /\ conf \in Configs
    /\ mainPc = "start"
    /\ local_dir = None
    /\ remote_dir = None
    /\ rclone_args = <<>>
    /\ observer = "none"
    /\ hpc = "idle"
    /\ events = <<>>
    /\ calls = <<>>
    /\ inflight = {}
    /\ last = NoLast
    /\ local_path = None
    /\ mapped = None
    /\ released = <<>>
    /\ lsd_flags = <<>>
    /\ stopped_in_first = FALSE

\* The invocations made by the handler of event number n
CallsOf(n) == SelectSeq(calls, LAMBDA c : c.event = n)

\* The invocations of the latest event
EvCalls == CallsOf(Len(events))

\* The invocations of thread t whose child is running
Running(t) == {f \in inflight : f.thread = t}

IssueNoWait(t, n, inv, others) ==
    /\ calls' = Append(calls, [thread |-> t, event |-> n, argv |-> inv.argv,
                               warning_in_debug |-> inv.warning_in_debug])
    /\ inflight' = inflight \cup {[thread |-> t, index |-> Len(calls) + 1]}

\* run_cmd line 78: _execute is entered with inv; Popen starts the child.
\* `others` are the children still running: _execute returns only after
\* communicate() (line 36), so the caller's previous child is not among them
Issue(t, n, inv, others) ==
    /\ calls' = Append(calls, [thread |-> t, event |-> n, argv |-> inv.argv,
                               warning_in_debug |-> inv.warning_in_debug])
    /\ inflight' = others \cup {[thread |-> t, index |-> Len(calls) + 1]}

\* The positional arguments a handler passes to a wrapper, before the flags
Positional(inv) == SubSeq(inv.argv, 3, Len(inv.argv) - Len(rclone_args))

\* The child of f ends with outcome o: what _execute returns
Returned(f, o) ==
    _execute(calls[f.index].argv, calls[f.index].warning_in_debug, o)

---------------------------------------------------------------------------
(* main() *)

\* main, lines 281-319: read the configuration, raise on a configuration
\* error, else construct the handler and call lsd on the remote root
MainStartup ==
    /\ mainPc = "start"
    /\ IF ConfOk(conf)
       THEN /\ local_dir' = ReadConf(conf).local_dir
            /\ remote_dir' = ReadConf(conf).remote_dir
            /\ rclone_args' = InitArgs(ReadConf(conf).dry_run)
            /\ Issue("main", 0, lsd(ReadConf(conf).remote_dir, lsd_flags, FALSE), inflight)
            /\ lsd_flags' = flags_after(<<ReadConf(conf).remote_dir>>, lsd_flags)
            /\ mainPc' = "lsd"
       ELSE /\ mainPc' = "fatal"
            /\ UNCHANGED <<local_dir, remote_dir, rclone_args, calls, inflight, lsd_flags>>
    /\ UNCHANGED <<conf, released, stopped_in_first, observer, hpc, events, last, local_path, mapped>>

\* main, lines 319-326: lsd returns; raise, or schedule and start the observer
LsdReturn(o) ==
    /\ mainPc = "lsd"
    /\ \E f \in Running("main") :
        LET r == Returned(f, o) IN
        /\ last' = [index |-> f.index, outcome |-> o, ret |-> r]
        /\ inflight' = inflight \ {f}
        /\ IF r.raised \/ RemoteMissing(r)
           THEN mainPc' = "fatal" /\ UNCHANGED observer
           ELSE mainPc' = "watching" /\ observer' = "alive"
    /\ UNCHANGED <<conf, released, lsd_flags, stopped_in_first,
                   local_dir, remote_dir, rclone_args, hpc, events,
                   calls, local_path, mapped>>

MainStopNoFinally ==
    /\ mainPc = "watching"
    /\ mainPc' = "exited"
    /\ UNCHANGED <<conf, lsd_flags, local_dir, remote_dir, rclone_args, hpc, events,
                   calls, inflight, last, local_path, mapped, observer, released,
                   stopped_in_first>>

\* main, lines 327-331: the loop ends (KeyboardInterrupt in join(1), or the
\* observer thread is no longer alive) and the finally block calls stop()
MainStop ==
    /\ mainPc = "watching"
    /\ mainPc' = "joining"
    /\ observer' = IF observer = "alive" THEN "stopping" ELSE observer
    /\ released' = Append(released, "stop")
    /\ stopped_in_first' = (hpc = "moved1")
    /\ UNCHANGED <<conf, lsd_flags, local_dir, remote_dir, rclone_args, hpc, events,
                   calls, inflight, last, local_path, mapped>>

MainJoinNoWait ==
    /\ mainPc = "joining"
    /\ mainPc' = "exited"
    /\ observer' = "joined"
    /\ released' = Append(released, "join")
    /\ UNCHANGED <<conf, lsd_flags, stopped_in_first, local_dir, remote_dir,
                   rclone_args, hpc, events, calls, inflight, last, local_path, mapped>>

\* main, line 332: join() returns once the observer thread has left its handler
MainJoin ==
    /\ mainPc = "joining"
    /\ hpc \in {"idle", "raised"}
    /\ mainPc' = "exited"
    /\ observer' = "joined"
    /\ released' = Append(released, "join")
    /\ UNCHANGED <<conf, lsd_flags, stopped_in_first,
                   local_dir, remote_dir, rclone_args, hpc, events,
                   calls, inflight, last, local_path, mapped>>

---------------------------------------------------------------------------
(* The observer thread *)

\* The observer thread takes the next event only while it runs and is idle
CanDispatch(e) ==
    /\ observer = "alive"
    /\ hpc = "idle"
    /\ Len(events) < MaxEvents
    /\ e \in Events

Deliver(e) == events' = Append(events, e)

on_created(e) ==
    /\ CanDispatch(e)
    /\ e.kind = "created"
    /\ Deliver(e)
    /\ Issue("observer", Len(events) + 1, on_created_call(e), inflight)
    /\ rclone_args' = flags_after(Positional(on_created_call(e)), rclone_args)
    /\ hpc' = "created"
    /\ local_path' = e.src_path
    /\ mapped' = _remote_path(e.src_path)
    /\ UNCHANGED <<conf, released, lsd_flags, stopped_in_first, mainPc, local_dir,
                   remote_dir, observer, last>>

on_deleted(e) ==
    /\ CanDispatch(e)
    /\ e.kind = "deleted"
    /\ Deliver(e)
    /\ Issue("observer", Len(events) + 1, on_deleted_call(e), inflight)
    /\ rclone_args' = flags_after(Positional(on_deleted_call(e)), rclone_args)
    /\ hpc' = "deleted"
    /\ local_path' = e.src_path
    /\ mapped' = _remote_path(e.src_path)
    /\ UNCHANGED <<conf, released, lsd_flags, stopped_in_first, mainPc, local_dir,
                   remote_dir, observer, last>>

on_modified_debounced(e) ==
    /\ CanDispatch(e)
    /\ e.kind = "modified"
    /\ Deliver(e)
    /\ IF e.is_directory \/ (events # <<>> /\ events[Len(events)] = e)
       THEN UNCHANGED <<calls, inflight, hpc, local_path, mapped, rclone_args>>
       ELSE /\ Issue("observer", Len(events) + 1, on_modified_call(e), inflight)
            /\ rclone_args' = flags_after(Positional(on_modified_call(e)), rclone_args)
            /\ hpc' = "modified"
            /\ local_path' = e.src_path
            /\ mapped' = _remote_path(e.src_path)
    /\ UNCHANGED <<conf, released, lsd_flags, stopped_in_first, mainPc, local_dir,
                   remote_dir, observer, last>>

on_modified(e) ==
    /\ CanDispatch(e)
    /\ e.kind = "modified"
    /\ Deliver(e)
    /\ IF e.is_directory
       THEN UNCHANGED <<calls, inflight, hpc, local_path, mapped, rclone_args>>
       ELSE /\ Issue("observer", Len(events) + 1, on_modified_call(e), inflight)
            /\ rclone_args' = flags_after(Positional(on_modified_call(e)), rclone_args)
            /\ hpc' = "modified"
            /\ local_path' = e.src_path
            /\ mapped' = _remote_path(e.src_path)
    /\ UNCHANGED <<conf, released, lsd_flags, stopped_in_first, mainPc, local_dir,
                   remote_dir, observer, last>>

\* on_moved up to the Popen of its first invocation
on_moved(e) ==
    /\ CanDispatch(e)
    /\ e.kind = "moved"
    /\ Deliver(e)
    /\ Issue("observer", Len(events) + 1, on_moved_first(e), inflight)
    /\ rclone_args' = RetryArgs(rclone_args).stored
    /\ hpc' = "moved1"
    /\ local_path' = e.src_path
    /\ mapped' = _remote_path(e.src_path)
    /\ UNCHANGED <<conf, released, lsd_flags, stopped_in_first, mainPc, local_dir,
                   remote_dir, observer, last>>

\* on_moved from the return of its first invocation to the Popen of its second
on_moved_continue(o) ==
    /\ hpc = "moved1"
    /\ \E f \in Running("observer") :
        LET r == Returned(f, o)
            e == events[Len(events)]
        IN
        /\ last' = [index |-> f.index, outcome |-> o, ret |-> r]
        /\ IF r.raised
           THEN /\ hpc' = "raised"
                /\ observer' = "dead"
                /\ inflight' = inflight \ {f}
                /\ UNCHANGED <<calls, local_path, mapped, rclone_args>>
           ELSE /\ Issue("observer", Len(events), on_moved_second(e), inflight \ {f})
                /\ rclone_args' = flags_after(Positional(on_moved_second(e)), rclone_args)
                /\ hpc' = "moved2"
                /\ local_path' = e.dest_path
                /\ mapped' = _remote_path(e.dest_path)
                /\ UNCHANGED observer
    /\ UNCHANGED <<conf, released, lsd_flags, stopped_in_first, mainPc, local_dir,
                   remote_dir, events>>

\* The last invocation of a handler returns and the handler returns
HandlerReturn(o) ==
    /\ hpc \in {"created", "deleted", "modified", "moved2"}
    /\ \E f \in Running("observer") :
        LET r == Returned(f, o) IN
        /\ last' = [index |-> f.index, outcome |-> o, ret |-> r]
        /\ inflight' = inflight \ {f}
        /\ IF r.raised
           THEN hpc' = "raised" /\ observer' = "dead"
           ELSE hpc' = "idle" /\ UNCHANGED observer
    /\ UNCHANGED <<conf, released, lsd_flags, stopped_in_first,
                   mainPc, local_dir, remote_dir, rclone_args, events,
                   calls, local_path, mapped>>

Next ==
    \/ MainStartup
    \/ \E o \in Outcomes : LsdReturn(o)
    \/ MainStop
    \/ MainJoin
    \/ \E e \in Events : on_created(e)
    \/ \E e \in Events : on_deleted(e)
    \/ \E e \in Events : on_modified(e)
    \/ \E e \in Events : on_moved(e)
    \/ \E o \in Outcomes : on_moved_continue(o)
    \/ \E o \in Outcomes : HandlerReturn(o)

Spec == Init /\ [][Next]_vars

---------------------------------------------------------------------------
(* _remote_path on its own: a handler constructed with any pair of roots,  *)
(* and _remote_path applied to any path                                    *)

MapLocalDirs == Strs(MaxRootLen) \ {<<>>}
MapRemoteDirs == {<<"r:">> \o s : s \in Strs(MaxRootLen)}

InitMap ==
    /\ conf \in [exists : {TRUE}, parsed : {TRUE}, local_dir : MapLocalDirs,
                 remote_dir : MapRemoteDirs, dry_run : {FALSE}, isdir : {TRUE}]
    /\ mainPc = "constructed"
    /\ local_dir = ReadConf(conf).local_dir
    /\ remote_dir = ReadConf(conf).remote_dir
    /\ rclone_args = InitArgs(ReadConf(conf).dry_run)
    /\ observer = "none"
    /\ hpc = "idle"
    /\ events = <<>>
    /\ calls = <<>>
    /\ inflight = {}
    /\ last = NoLast
    /\ local_path = None
    /\ mapped = None
    /\ released = <<>>
    /\ lsd_flags = <<>>
    /\ stopped_in_first = FALSE

RemotePathCall(p) ==
    /\ local_path' = p
    /\ mapped' = _remote_path(p)
    /\ UNCHANGED <<conf, released, lsd_flags, stopped_in_first,
                   mainPc, local_dir, remote_dir, rclone_args, observer, hpc,
                   events, calls, inflight, last>>

NextMap == \E p \in Strs(MaxPathLen) : RemotePathCall(p)

SpecMap == InitMap /\ [][NextMap]_vars

---------------------------------------------------------------------------
(* Vocabulary of the properties *)

Range(f) == {f[i] : i \in DOMAIN f}

\* The remote root followed by what follows the local root in p
MapPrefix(p) == remote_dir \o SubSeq(p, Len(local_dir) + 1, Len(p))

Latest == events[Len(events)]
Handling(kind) == events # <<>> /\ Latest.kind = kind

\* Index in calls of the i-th invocation of the latest event
EvIndex(i) ==
    CHOOSE k \in 1..Len(calls) :
        /\ calls[k].event = Len(events)
        /\ Cardinality({j \in 1..k : calls[j].event = Len(events)}) = i

HasReturned(k) == \A f \in inflight : f.index # k

\* inv runs subcommand cmd with exactly the positional arguments args
Runs(inv, cmd, args) ==
    /\ Len(inv.argv) >= 2 + Len(args)
    /\ inv.argv[1] = <<"rclone">>
    /\ inv.argv[2] = <<cmd>>
    /\ SubSeq(inv.argv, 3, 2 + Len(args)) = args
    /\ \A j \in (3 + Len(args))..Len(inv.argv) :
          inv.argv[j] \in {DryRunFlag, <<"--retries">>, <<"1">>}

IsUnlink(inv, e) ==
    IF e.is_directory
    THEN Runs(inv, "purge", <<MapPrefix(e.src_path)>>)
    ELSE Runs(inv, "deletefile", <<MapPrefix(e.src_path)>>)

IsCreate(inv, e) ==
    IF e.is_directory
    THEN Runs(inv, "mkdir", <<MapPrefix(e.dest_path)>>)
    ELSE Runs(inv, "copyto", <<e.dest_path, MapPrefix(e.dest_path)>>)

HasRetry(inv) ==
    \E j \in 1..(Len(inv.argv) - 1) :
        inv.argv[j] = <<"--retries">> /\ inv.argv[j + 1] = <<"1">>

---------------------------------------------------------------------------
(* Properties *)

\* C1: in every Moved event the delete/purge invocation on the mapped source
\* path is issued first and has returned before the create/copy invocation
\* on the mapped destination path is issued; the second is never issued
\* first or without the first.
C1_MoveOrdering ==
    Handling("moved") =>
        /\ Len(EvCalls) >= 1 => IsUnlink(EvCalls[1], Latest)
        /\ Len(EvCalls) >= 2 =>
              /\ IsCreate(EvCalls[2], Latest)
              /\ HasReturned(EvIndex(1))
              /\ last.index >= EvIndex(1)
        /\ Len(EvCalls) <= 2

C1_Witness ==
    /\ Handling("moved")
    /\ hpc = "moved2"
    /\ Len(EvCalls) = 2
    /\ last.index = EvIndex(1)
    /\ ~HasReturned(EvIndex(2))

\* The (kind, isDirectory) table: subcommand and positional arguments of each
\* invocation of an event, in order
Table(e) ==
    CASE e.kind = "created" /\ e.is_directory ->
            << [cmd |-> "mkdir", args |-> <<MapPrefix(e.src_path)>>] >>
      [] e.kind = "created" /\ ~e.is_directory ->
            << [cmd |-> "copyto", args |-> <<e.src_path, MapPrefix(e.src_path)>>] >>
      [] e.kind = "deleted" /\ e.is_directory ->
            << [cmd |-> "purge", args |-> <<MapPrefix(e.src_path)>>] >>
      [] e.kind = "deleted" /\ ~e.is_directory ->
            << [cmd |-> "deletefile", args |-> <<MapPrefix(e.src_path)>>] >>
      [] e.kind = "modified" /\ e.is_directory -> << >>
      [] e.kind = "modified" /\ ~e.is_directory ->
            << [cmd |-> "copyto", args |-> <<e.src_path, MapPrefix(e.src_path)>>] >>
      [] e.kind = "moved" /\ e.is_directory ->
            << [cmd |-> "purge", args |-> <<MapPrefix(e.src_path)>>],
               [cmd |-> "mkdir", args |-> <<MapPrefix(e.dest_path)>>] >>
      [] e.kind = "moved" /\ ~e.is_directory ->
            << [cmd |-> "deletefile", args |-> <<MapPrefix(e.src_path)>>],
               [cmd |-> "copyto", args |-> <<e.dest_path, MapPrefix(e.dest_path)>>] >>

\* The handler of event number n has returned
Handled(n) == n < Len(events) \/ hpc = "idle"

\* C2: the invocations issued for every event are exactly those of the
\* (kind, isDirectory) table, in order: a prefix of the row while the handler
\* runs, the whole row once it has returned, and nothing else.
C2_OperationTable ==
    \A n \in 1..Len(events) :
        LET t == Table(events[n])
            c == CallsOf(n)
        IN
        /\ Len(c) <= Len(t)
        /\ \A i \in 1..Len(c) : Runs(c[i], t[i].cmd, t[i].args)
        /\ Handled(n) => Len(c) = Len(t)

C2_Witness ==
    /\ Len(events) = 2
    /\ events[1].kind = "modified" /\ events[1].is_directory
    /\ CallsOf(1) = <<>>
    /\ events[2].kind = "moved" /\ ~events[2].is_directory
    /\ hpc = "idle"
    /\ Len(CallsOf(2)) = 2

\* C3: every invocation issued by an event handler carries --dry-run when the
\* engine was constructed with dry_run true, and none does when it was
\* constructed with dry_run false.
C3_DryRunPropagation ==
    \A k \in 1..Len(calls) :
        calls[k].event > 0 =>
            ((DryRunFlag \in Range(calls[k].argv)) <=> ReadConf(conf).dry_run)

C3_Witness ==
    /\ ReadConf(conf).dry_run
    /\ Len(events) = 2
    /\ events[1].kind = "moved"
    /\ Len(CallsOf(1)) = 2
    /\ Len(CallsOf(2)) = 1
    /\ \A k \in 2..Len(calls) : DryRunFlag \in Range(calls[k].argv)

\* C4: whatever the first invocation of a Moved event returns, the second
\* invocation is issued, and the handler returns normally after it: no
\* exception leaves a handler and the observer thread never dies.
C4_BestEffort ==
    /\ hpc # "raised"
    /\ observer # "dead"
    /\ Handling("moved") =>
          /\ (Len(EvCalls) >= 1 /\ HasReturned(EvIndex(1))) =>
                (Len(EvCalls) = 2 /\ IsCreate(EvCalls[2], Latest))
          /\ (Len(EvCalls) = 2 /\ HasReturned(EvIndex(2))) => hpc = "idle"

C4_Witness ==
    /\ Handling("moved")
    /\ Len(EvCalls) = 2
    /\ last.index = EvIndex(1)
    /\ last.ret.code = NotFoundCode
    /\ IsCreate(EvCalls[2], Latest)

\* C5: for a local path that starts with the local root, _remote_path gives
\* the remote root followed by the rest of the path: only the occurrence of
\* the local root at position 0 is replaced.
C5_PathMapping ==
    (local_path # None /\ StartsWith(local_path, local_dir)) =>
        mapped = MapPrefix(local_path)

C5_Witness ==
    /\ local_path # None
    /\ StartsWith(local_path, local_dir)
    /\ Cardinality(Occurrences(local_path, local_dir)) >= 2
    /\ mapped = MapPrefix(local_path)
    /\ mapped # RemotePathAll(local_path)

\* The latest return of _execute belongs to invocation i of the latest event
LastIsEv(i) ==
    /\ Len(EvCalls) >= i
    /\ last.index = EvIndex(i)

\* C6: in a Moved event the delete/purge step runs with warning_in_debug set
\* and its stderr is never logged at warning; the create/copy step runs
\* without it and its non-empty stderr is logged at warning.
C6_VerbosityDemotion ==
    Handling("moved") =>
        /\ Len(EvCalls) >= 1 => EvCalls[1].warning_in_debug
        /\ Len(EvCalls) >= 2 => ~EvCalls[2].warning_in_debug
        /\ (LastIsEv(1) /\ last.outcome.kind = "ran" /\ last.outcome.stderr # <<>>) =>
                last.ret.logged # "warning"
        /\ (LastIsEv(2) /\ last.outcome.kind = "ran" /\ last.outcome.stderr # <<>>) =>
                last.ret.logged = "warning"

\* The part of C6 that does not depend on decoding stderr
C6_Decodable ==
    Handling("moved") =>
        /\ Len(EvCalls) >= 1 => EvCalls[1].warning_in_debug
        /\ Len(EvCalls) >= 2 => ~EvCalls[2].warning_in_debug
        /\ (LastIsEv(1) /\ last.outcome.kind = "ran" /\ last.outcome.stderr # <<>>
              /\ Decodable(last.outcome.stderr)) =>
                last.ret.logged = "debug"
        /\ (LastIsEv(2) /\ last.outcome.kind = "ran" /\ last.outcome.stderr # <<>>
              /\ Decodable(last.outcome.stderr)) =>
                last.ret.logged = "warning"

\* Invocation k is the first one of a Moved event
FirstOfMoved(k) ==
    /\ calls[k].event > 0
    /\ events[calls[k].event].kind = "moved"
    /\ \A j \in 1..(k - 1) : calls[j].event # calls[k].event

\* C7: --retries 1 is on the first invocation of every Moved event and
\* on no other invocation, whatever events were handled before.
C7_RetryOnlyOnMovedFirst ==
    \A k \in 1..Len(calls) :
        IF FirstOfMoved(k)
        THEN HasRetry(calls[k])
        ELSE <<"--retries">> \notin Range(calls[k].argv)

C7_Witness ==
    /\ Len(events) = 2
    /\ events[1].kind = "moved"
    /\ HasRetry(CallsOf(1)[1])
    /\ Len(CallsOf(1)) = 2
    /\ Len(CallsOf(2)) >= 1
    /\ events[2].kind # "moved"
    /\ ~HasRetry(CallsOf(2)[1])

\* C8: _execute never raises: whatever launching the child does, it returns
\* a result; code -20 when the executable is not found, code -30 on any
\* other fault.
C8_RunnerNeverRaises ==
    last.index > 0 =>
        /\ ~last.ret.raised
        /\ last.outcome.kind = "notfound" => last.ret.code = NotFoundCode
        /\ last.outcome.kind = "oserror" => last.ret.code = FaultCode
        /\ last.outcome.kind = "ran" =>
              last.ret.code \in {last.outcome.rc, FaultCode}

C8_Witness ==
    /\ last.index > 0
    /\ last.outcome.kind = "oserror"
    /\ ~last.ret.raised
    /\ last.ret.code = FaultCode

\* C9: when the child was found and ran to completion, the result carries
\* the child's exit code, stdout and stderr, never a sentinel code, whatever
\* the bytes of stderr.
C9_RanToCompletion ==
    (last.index > 0 /\ last.outcome.kind = "ran") =>
        /\ last.ret.code = last.outcome.rc
        /\ last.ret.out = last.outcome.stdout
        /\ last.ret.error = last.outcome.stderr
        /\ last.ret.code \notin {NotFoundCode, FaultCode}

\* The latest return of _execute is that of the startup lsd call
LsdReturned == last.index = 1 /\ calls[1].thread = "main" /\ HasReturned(1)

\* C10: the observer is started only if the startup lsd call returned a
\* non-error code; on every error code startup is fatal, the observer is
\* never started and no event is handled.
C10_RemoteValidation ==
    /\ observer # "none" => (Len(calls) >= 1 /\ HasReturned(1))
    /\ LsdReturned =>
          IF last.ret.code = 0
          THEN mainPc # "fatal"
          ELSE mainPc = "fatal" /\ observer = "none" /\ events = <<>>


\* The configuration errors of C11, read off the environment
BadConfig(c) ==
    \/ ~c.exists
    \/ ~c.parsed
    \/ c.local_dir \in {None, <<>>}
    \/ c.remote_dir \in {None, <<>>}
    \/ ~c.isdir

\* C11: with the configuration file missing or unparseable, local_dir or
\* remote_dir missing or empty, or local_dir not a directory, startup ends
\* in a fatal error: no invocation is ever made, and the observer is never
\* created or started.
C11_ConfigGating ==
    BadConfig(conf) =>
        /\ mainPc \in {"start", "fatal"}
        /\ calls = <<>>
        /\ inflight = {}
        /\ observer = "none"
        /\ events = <<>>

C11_Witness ==
    /\ conf.exists /\ conf.parsed
    /\ conf.local_dir \in LocalDirs
    /\ conf.remote_dir \in RemoteDirs
    /\ ~conf.isdir
    /\ mainPc = "fatal"
    /\ calls = <<>>
    /\ observer = "none"


\* C12: once the observer has been started, main() leaves only through the
\* finally block: when the process has exited, stop() and then join() have
\* been called on the observer, in that order, whatever ended the loop.
C12_GuaranteedRelease ==
    /\ observer # "none" => mainPc \in {"watching", "joining", "exited"}
    /\ mainPc = "watching" => released = <<>>
    /\ mainPc = "joining" => released = <<"stop">>
    /\ mainPc = "exited" => (released = <<"stop", "join">> /\ observer = "joined")

C12_Witness ==
    /\ mainPc = "exited"
    /\ released = <<"stop", "join">>
    /\ observer = "joined"
    /\ Len(events) >= 1


\* The latest invocation of a handler to return has failed: a non-zero exit
\* code, the executable not found, or an execution fault
HandlerCallFailed ==
    /\ last.index > 0
    /\ calls[last.index].thread = "observer"
    /\ (last.ret.raised \/ last.ret.code # 0)

\* C13: a failed invocation never stops the watching: the handler does not
\* raise, the observer thread stays alive until main() stops it, and every
\* later event gets the whole operation sequence of its table row.
C13_FailuresNeverStopWatching ==
    HandlerCallFailed =>
        /\ ~last.ret.raised
        /\ hpc \in {"idle", "created", "deleted", "modified", "moved1", "moved2"}
        /\ observer \in {"alive", "stopping", "joined"}
        /\ mainPc = "watching" => observer = "alive"
        /\ \A n \in (calls[last.index].event + 1)..Len(events) :
              /\ Len(CallsOf(n)) <= Len(Table(events[n]))
              /\ Handled(n) => Len(CallsOf(n)) = Len(Table(events[n]))
              /\ (~Handled(n) /\ events[n].kind # "moved") => Len(CallsOf(n)) = 1

C13_Witness ==
    /\ HandlerCallFailed
    /\ last.ret.code = NotFoundCode
    /\ calls[last.index].event = 1
    /\ Len(events) = 2
    /\ mainPc = "watching"
    /\ observer = "alive"
    /\ Len(CallsOf(2)) = 1
    /\ Cardinality(inflight) = 1


\* C14: at most one invocation is in flight at any time; the invocations of
\* one event are contiguous in the order of issue, and each invocation has
\* returned before the next one, of the same or of a later event, is issued.
C14_Sequential ==
    /\ Cardinality(inflight) <= 1
    /\ \A f \in inflight : f.index = Len(calls)
    /\ \A j, k \in 1..Len(calls) : j < k => calls[j].event <= calls[k].event

C14_Witness ==
    /\ Len(events) = 2
    /\ Len(CallsOf(1)) = 2
    /\ Len(CallsOf(2)) = 2
    /\ inflight = {[thread |-> "observer", index |-> Len(calls)]}
    /\ Len(calls) = 5


\* The flags of the configuration, as every handler invocation carries them
ConfFlags == IF ReadConf(conf).dry_run THEN <<DryRunFlag>> ELSE <<>>

\* The whole operation sequence of one event: the table row with its flags
Expected(e) ==
    [i \in 1..Len(Table(e)) |->
        [argv |-> <<<<"rclone">>, <<Table(e)[i].cmd>>>> \o Table(e)[i].args \o ConfFlags
                    \o (IF e.kind = "moved" /\ i = 1 THEN RetryFlags ELSE <<>>),
         warning_in_debug |-> (e.kind = "moved" /\ i = 1)]]

\* The concatenation of the operation sequences of a sequence of events
RECURSIVE ExpectedAll(_)
ExpectedAll(evs) ==
    IF evs = <<>> THEN <<>>
    ELSE ExpectedAll(SubSeq(evs, 1, Len(evs) - 1)) \o Expected(evs[Len(evs)])

\* The invocations made by the handlers, in the order of issue
HandlerCalls ==
    LET c == SelectSeq(calls, LAMBDA x : x.event > 0) IN
    [k \in 1..Len(c) |-> [argv |-> c[k].argv, warning_in_debug |-> c[k].warning_in_debug]]

\* C15: the invocations made for the delivered events are the concatenation,
\* in delivery order, of the operation sequences of the events, each a
\* function of its event alone: nothing is dropped, merged or reordered.
C15_PassThrough ==
    /\ Len(HandlerCalls) <= Len(ExpectedAll(events))
    /\ HandlerCalls = SubSeq(ExpectedAll(events), 1, Len(HandlerCalls))
    /\ hpc = "idle" => HandlerCalls = ExpectedAll(events)

C15_Witness ==
    /\ Len(events) = 2
    /\ events[1] = events[2]
    /\ events[1].kind = "modified" /\ ~events[1].is_directory
    /\ hpc = "idle"
    /\ Len(HandlerCalls) = 2
    /\ HandlerCalls[1] = HandlerCalls[2]
    /\ HandlerCalls[1].argv[2] = <<"copyto">>


\* C16: after construction the stored flag list is the one __init__ built,
\* and the default flag list of the wrapper called without flags (lsd, at
\* startup) stays empty, whatever events were handled: the retry flags of a
\* Moved event and the arguments of any invocation never enter them.
C16_FlagsImmutable ==
    /\ lsd_flags = <<>>
    /\ calls # <<>> => rclone_args = ConfFlags

C16_Witness ==
    /\ Len(events) = 2
    /\ events[1].kind = "moved"
    /\ HasRetry(CallsOf(1)[1])
    /\ hpc = "idle"
    /\ ReadConf(conf).dry_run
    /\ rclone_args = <<DryRunFlag>>
    /\ lsd_flags = <<>>
    /\ calls[1].argv = <<<<"rclone">>, <<"lsd">>, remote_dir>>


\* C17: when stop() is called while the first invocation of a Moved event is
\* in flight, the handler goes on: the second invocation is issued once the
\* first returns, and join() returns and the process exits only after the
\* second has returned.
C17_NoMidSequenceCancel ==
    stopped_in_first =>
        /\ Handling("moved")
        /\ hpc \in {"moved1", "moved2", "idle"}
        /\ hpc = "moved1" => Len(EvCalls) = 1
        /\ hpc # "moved1" => (Len(EvCalls) = 2 /\ IsCreate(EvCalls[2], Latest))
        /\ hpc # "idle" => mainPc = "joining"
        /\ mainPc = "exited" =>
              /\ inflight = {}
              /\ HasReturned(EvIndex(2))
              /\ last.index = EvIndex(2)

C17_Witness ==
    /\ stopped_in_first
    /\ Handling("moved")
    /\ mainPc = "exited"
    /\ released = <<"stop", "join">>
    /\ Len(EvCalls) = 2
    /\ last.index = EvIndex(2)
    /\ hpc = "idle"


\* The local paths of event number n
PathsOf(n) == {events[n].src_path, events[n].dest_path} \ {None}

\* C18: the target of every purge, deletefile and mkdir and the destination
\* of every copyto issued by a handler starts with the remote root; the only
\* argument that is a local path of the event is the source of a copyto.
C18_RemoteTargets ==
    \A k \in 1..Len(calls) :
        calls[k].event > 0 =>
            LET a == calls[k].argv IN
            /\ a[2] \in {<<"purge">>, <<"deletefile">>, <<"mkdir">>, <<"copyto">>}
            /\ IF a[2] = <<"copyto">>
               THEN /\ a[3] \in PathsOf(calls[k].event)
                    /\ StartsWith(a[4], remote_dir)
                    /\ \A j \in 4..Len(a) : a[j] \notin PathsOf(calls[k].event)
               ELSE /\ StartsWith(a[3], remote_dir)
                    /\ \A j \in 3..Len(a) : a[j] \notin PathsOf(calls[k].event)

C18_Witness ==
    /\ Len(events) = 2
    /\ events[1].kind = "moved" /\ ~events[1].is_directory
    /\ events[2].kind = "deleted" /\ events[2].is_directory
    /\ Len(CallsOf(1)) = 2
    /\ Len(CallsOf(2)) = 1
    /\ CallsOf(1)[1].argv[2] = <<"deletefile">>
    /\ StartsWith(CallsOf(1)[1].argv[3], remote_dir)
    /\ CallsOf(2)[1].argv[2] = <<"purge">>
    /\ StartsWith(CallsOf(2)[1].argv[3], remote_dir)
    /\ StartsWith(events[2].src_path, local_dir)

====
